---- MODULE Spec2Model ----
(***************************************************************************)
(* termination-manager (src/index.js): priority-ordered shutdown tasks,   *)
(* a per-task timeout race, exit-code arbitration and a drain watchdog,    *)
(* modelled on Node's run-to-completion scheduling: promise continuations  *)
(* (microtasks) run before any timer, immediate or natural exit.           *)
(***************************************************************************)
EXTENDS Integers, Sequences, FiniteSets, TLC

\* ---------------------------------------------------------------- bounds
MaxTasks == 2
MaxRequests == 2

\* ------------------------------------------------------ program constants
MinGuard == 100
DefaultGrace == 5000
DefaultDrainGrace == 5000
InitialPriority == -1

\* The value of process.exitCode before anything assigns it (JS undefined);
\* also the `grace` field of an error that has none.
Undefined == -1

\* ------------------------------------------------------------ input sets
\* priorities passed to add()
Priorities == {0, 1}
\* exit codes passed to exit({code})
Codes == {0, 1, 2}
\* grace periods passed to exit({grace}); constructor options
GraceValues == {0, 100, DefaultGrace}
GraceOptions == {100, DefaultGrace}
DrainValues == {100, DefaultDrainGrace}
\* Clock readings at construction, and instants the clock may step to
\* between timer deadlines.
StartTimes == {30}
Instants == {50, 6000}
Names == 1..MaxTasks
\* Arguments of add(): a JS value is its typeof, an integer part and a
\* fraction in thousandths (a string's integer part is its length).
NameInputs == {[type |-> "string", int |-> 2, frac |-> 0],
               [type |-> "string", int |-> 0, frac |-> 0],
               [type |-> "boolean", int |-> 1, frac |-> 0]}
PriorityInputs == {[type |-> "number", int |-> p, frac |-> 0] : p \in Priorities}
                      \cup {[type |-> "undefined", int |-> 0, frac |-> 0],
                            [type |-> "number", int |-> 0 - 1, frac |-> 0],
                            [type |-> "number", int |-> 3, frac |-> 142],
                            [type |-> "string", int |-> 1, frac |-> 0]}
StopInputs == {[type |-> "function", int |-> 0, frac |-> 0],
               [type |-> "object", int |-> 0, frac |-> 0]}
ValidName == [type |-> "string", int |-> 2, frac |-> 0]
Function == [type |-> "function", int |-> 0, frac |-> 0]
StopOutcomes == {"throws", "returns", "promise"}

VARIABLES
    grace, drainGrace,      \* this.grace, this.drainGrace
    tasks,                  \* this.tasks: sequence of [name, priority]
    exiting,                \* this.exiting
    exitCode,               \* nodeProcess.exitCode
    groups,                 \* the seq objects built by reduce: [priority, tasks]
    runGrace,               \* the grace captured by the chain() calls
    phase,                  \* state of the chained promise
    cur, cursor,            \* group being run, next task of tasks.map
    pipeErr,                \* rejection reason of the chained promise
    st,                     \* per task: state of task.stop()
    race,                   \* per task: state of the Promise.race
    timer, due,             \* per task: the timeout timer and its deadline
    given,                  \* per task: the grace passed to stop
    startedAt,              \* history, per task: clock when stop was invoked
    watchdog, drainDue,     \* the drain timer and its deadline
    proc,                   \* the process: running, exited, killed
    clock,                  \* time in milliseconds
    order,                  \* history: names in order of stop invocation
    failures,               \* history: race rejections in order of occurrence
    stopErrors,             \* history: arguments of the onStopError calls
    drainCalls,             \* history: number of onDrainTimeout calls
    runs,                   \* history: number of shutdown sequences started
    arms,                   \* history: number of drain timers set
    exitAt,                 \* history: clock at the exit() that started shutdown
    atExit,                 \* history: names registered at that exit()
    codeBefore,             \* history: exit code the catch handler found
    requests,               \* history: number of exit()/crash() calls
    addError                \* history: field named by the TypeError of the latest add()

vars == <<grace, drainGrace, tasks, exiting, exitCode, groups, runGrace, phase,
          cur, cursor, pipeErr, st, race, timer, due, given, watchdog, drainDue,
          proc, clock, order, failures, stopErrors, drainCalls, runs, exitAt, atExit,
          codeBefore, requests, addError, startedAt, arms>>

pipeVars == <<groups, runGrace, phase, cur, cursor, pipeErr>>
taskVars == <<st, race, timer, due, given, startedAt>>
histVars == <<order, failures, stopErrors, drainCalls, runs, arms, exitAt, atExit,
              codeBefore>>

\* ---------------------------------------------------------------- values
Falsy(v) == v = Undefined \/ v = 0

NoError == [name |-> "none", task |-> 0, grace |-> Undefined]
\* The error object task n throws or rejects with (identified by its task).
TaskError(n) == [name |-> "Error", task |-> n, grace |-> Undefined]
StopTimeoutError(n, g) == [name |-> "StopTimeoutError", task |-> n, grace |-> g]

Max(a, b) == IF a >= b THEN a ELSE b

\* mutant: no lower bound on the timeout
GuardWithoutMinimum(g) == (g * 11) \div 10

\* Math.max(100, grace * 1.1), in whole milliseconds
GuardDelay(g) == Max(MinGuard, (g * 11) \div 10)

\* ------------------------------------------------------ sort and reduce
\* mutant: ascending comparator
CompareAscending(a, b) == a.priority - b.priority

\* the comparator (a, b) => b.priority - a.priority
Compare(a, b) == b.priority - a.priority

\* mutant: an element is put in front of its equals
RECURSIVE InsertBeforeEqual(_, _)
InsertBeforeEqual(t, s) ==
    IF s = <<>> THEN <<t>>
    ELSE IF Compare(Head(s), t) < 0 THEN <<Head(s)>> \o InsertBeforeEqual(t, Tail(s))
    ELSE <<t>> \o s

\* Insertion behind the elements that compare lower or equal.
RECURSIVE Insert(_, _)
Insert(t, s) ==
    IF s = <<>> THEN <<t>>
    ELSE IF Compare(Head(s), t) <= 0 THEN <<Head(s)>> \o Insert(t, Tail(s))
    ELSE <<t>> \o s

\* Array.prototype.sort with the comparator (stable)
RECURSIVE SortTasks(_)
SortTasks(s) ==
    IF s = <<>> THEN <<>>
    ELSE Insert(s[Len(s)], SortTasks(SubSeq(s, 1, Len(s) - 1)))

\* One step of the reducer: push onto the last seq object or open a new one.
ReduceStep(acc, t) ==
    LET last == acc[Len(acc)] IN
    IF t.priority = last.priority
    THEN [acc EXCEPT ![Len(acc)].tasks = Append(@, t.name)]
    ELSE Append(acc, [priority |-> t.priority, tasks |-> <<t.name>>])

RECURSIVE ReduceFrom(_, _)
ReduceFrom(acc, s) ==
    IF s = <<>> THEN acc ELSE ReduceFrom(ReduceStep(acc, Head(s)), Tail(s))

\* The seq objects that got a chain() call: all but the initial accumulator.
Reduce(s) ==
    Tail(ReduceFrom(<<[priority |-> InitialPriority, tasks |-> <<>>]>>, s))

\* ------------------------------------------------------------- pipeline
Range(s) == {s[i] : i \in 1..Len(s)}

\* mutant: the group is read from the registry when it runs
LiveTasks ==
    LET sel == SelectSeq(tasks, LAMBDA t : t.priority = groups[cur].priority)
    IN  [i \in 1..Len(sel) |-> sel[i].name]

\* The tasks of the group being run, as exit() collected them.
CurTasks == groups[cur].tasks

\* Error the race of task n rejected with.
RaceError(rc, n) ==
    IF rc[n] = "timeout" THEN StopTimeoutError(n, given[n]) ELSE TaskError(n)

RaceFailed(rc, n) == rc[n] \in {"error", "timeout"}

\* mutant: the last rejected element wins
LastRejected(rc, ts) ==
    ts[CHOOSE i \in 1..Len(ts) :
          /\ RaceFailed(rc, ts[i])
          /\ \A j \in (i + 1)..Len(ts) : ~RaceFailed(rc, ts[j])]

\* Promise.all over promises that are already settled when it subscribes:
\* the rejection of the first rejected element, in array order, wins.
FirstRejected(rc, ts) ==
    ts[CHOOSE i \in 1..Len(ts) :
          /\ RaceFailed(rc, ts[i])
          /\ \A j \in 1..(i - 1) : ~RaceFailed(rc, ts[j])]

\* chain(): the next chain resumes once this one's promise fulfils.
Advance ==
    IF cur < Len(groups)
    THEN phase' = "map" /\ cur' = cur + 1 /\ cursor' = 1
    ELSE phase' = "fulfilled" /\ UNCHANGED <<cur, cursor>>

\* No continuation of the manager is queued: timers, immediates and
\* natural exit happen only then.
MacroTurn == proc = "running" /\ phase \notin {"map", "rejected"}

PendingDues ==
    {due[n] : n \in {m \in Names : timer[m] = "armed"}}
        \cup (IF watchdog = "armed" THEN {drainDue} ELSE {})

\* ------------------------------------------------------------------ Init
Init ==
    /\ grace \in GraceOptions
    /\ drainGrace \in DrainValues
    /\ tasks = <<>>
    /\ exiting = FALSE
    /\ exitCode = Undefined
    /\ groups = <<>>
    /\ runGrace = 0
    /\ phase = "idle"
    /\ cur = 1
    /\ cursor = 1
    /\ pipeErr = NoError
    /\ st = [n \in Names |-> "idle"]
    /\ race = [n \in Names |-> "none"]
    /\ timer = [n \in Names |-> "none"]
    /\ due = [n \in Names |-> 0]
    /\ given = [n \in Names |-> Undefined]
    /\ startedAt = [n \in Names |-> 0]
    /\ watchdog = "unarmed"
    /\ drainDue = 0
    /\ proc = "running"
    /\ clock \in StartTimes
    /\ order = <<>>
    /\ failures = <<>>
    /\ stopErrors = <<>>
    /\ drainCalls = 0
    /\ runs = 0
    /\ arms = 0
    /\ exitAt = 0
    /\ atExit = {}
    /\ codeBefore = Undefined
    /\ requests = 0
    /\ addError = "none"

\* ------------------------------------------------------------------- add
\* add ({name, priority = 0, stop}): the default of an omitted priority
DefaultPriority(p) ==
    IF p.type = "undefined" THEN [type |-> "number", int |-> 0, frac |-> 0] ELSE p

\* Number.isInteger
IsInteger(v) == v.type = "number" /\ v.frac = 0

\* mutant: negative priorities pass
ValidateAnySign(name, priority, stop) ==
    IF name.type # "string" \/ name.int = 0 THEN "name"
    ELSE IF ~IsInteger(priority) THEN "priority"
    ELSE IF stop.type # "function" THEN "stop"
    ELSE "none"

\* The three checks of add, in order: the field the TypeError names.
Validate(name, priority, stop) ==
    IF name.type # "string" \/ name.int = 0 THEN "name"
    ELSE IF ~IsInteger(priority) \/ priority.int < 0 THEN "priority"
    ELSE IF stop.type # "function" THEN "stop"
    ELSE "none"

AddCall(name, priority, stop) ==
    /\ proc = "running"
    /\ addError' = Validate(name, DefaultPriority(priority), stop)
    /\ IF Validate(name, DefaultPriority(priority), stop) # "none"
       THEN UNCHANGED tasks
       ELSE /\ Len(tasks) < MaxTasks
            /\ tasks' = Append(tasks, [name |-> Len(tasks) + 1,
                                       priority |-> DefaultPriority(priority).int])
    /\ UNCHANGED <<grace, drainGrace, exiting, exitCode, watchdog, drainDue,
                   proc, clock, requests>>
    /\ UNCHANGED <<pipeVars, taskVars, histVars>>

\* add() with a valid task
Add ==
    \E p \in Priorities :
        AddCall(ValidName, [type |-> "number", int |-> p, frac |-> 0], Function)

\* add() with any task, valid or not
AddAny ==
    \E name \in NameInputs, priority \in PriorityInputs, stop \in StopInputs :
        AddCall(name, priority, stop)

\* ------------------------------------------------------------------ exit
\* mutant: the handler leaves the code alone
KeepCode(current) == current

\* mutant: the latest code overwrites
OverwriteCode(current, code) == code

\* if (!nodeProcess.exitCode) nodeProcess.exitCode = code
ArbitrateCode(current, code) == IF Falsy(current) THEN code ELSE current

\* mutant: no guard against exiting twice
NeverExiting == FALSE

\* if (this.exiting) return
AlreadyExiting == exiting

\* mutant: the drain timer is set one millisecond short
ShortDrainDelay == drainGrace - 1

\* setTimeout(..., this.drainGrace)
DrainDelay == drainGrace

\* mutant: exit() arms no drain timer
WatchdogNotArmed == "unarmed"

\* the drain timer after exit() has run
WatchdogArmed == "armed"

ExitCall(code, g) ==
    /\ proc = "running"
    /\ requests < MaxRequests
    /\ requests' = requests + 1
    /\ exitCode' = ArbitrateCode(exitCode, code)
    /\ IF AlreadyExiting
       THEN /\ UNCHANGED <<tasks, exiting, watchdog, drainDue>>
            /\ UNCHANGED <<pipeVars, histVars>>
       ELSE /\ exiting' = TRUE
            /\ tasks' = SortTasks(tasks)
            /\ groups' = Reduce(SortTasks(tasks))
            /\ runGrace' = g
            /\ phase' = IF Reduce(SortTasks(tasks)) = <<>> THEN "fulfilled" ELSE "map"
            /\ cur' = 1
            /\ cursor' = 1
            /\ pipeErr' = NoError
            /\ watchdog' = WatchdogArmed
            /\ drainDue' = clock + DrainDelay
            /\ runs' = runs + 1
            /\ arms' = arms + 1
            /\ exitAt' = clock
            /\ atExit' = {tasks[i].name : i \in 1..Len(tasks)}
            /\ UNCHANGED <<order, failures, stopErrors, drainCalls, codeBefore>>
    /\ UNCHANGED <<grace, drainGrace, proc, clock, addError>>
    /\ UNCHANGED taskVars

Exit == \E code \in Codes, g \in GraceValues : ExitCall(code, g)

ExitDefault == ExitCall(0, grace)

\* mutant: crash() keeps the configured grace
CrashWithManagerGrace == ExitCall(1, grace)

\* crash () { this.exit({code: 1, grace: 0}) }
Crash == ExitCall(1, 0)

Sigint == ExitCall(0, grace)

Sigterm == ExitCall(0, grace)

UncaughtException == ExitCall(1, 0)

UnhandledRejection == ExitCall(1, 0)

\* ------------------------------------------------- chain and invokeStop
\* mutant: the chain goes on to the next group whatever the races did
JoinIgnoringFailure(rc) ==
    IF \A n \in Range(CurTasks) : rc[n] # "pending"
    THEN Advance /\ UNCHANGED pipeErr
    ELSE phase' = "join" /\ UNCHANGED <<cur, cursor, pipeErr>>

\* The group's Promise.all once tasks.map has run, given the races rc.
JoinAfterMap(rc) ==
    IF \E n \in Range(CurTasks) : RaceFailed(rc, n)
    THEN /\ phase' = "rejected"
         /\ pipeErr' = RaceError(rc, FirstRejected(rc, CurTasks))
         /\ UNCHANGED <<cur, cursor>>
    ELSE IF \A n \in Range(CurTasks) : rc[n] = "ok"
    THEN Advance /\ UNCHANGED pipeErr
    ELSE phase' = "join" /\ UNCHANGED <<cur, cursor, pipeErr>>

\* mutant: a throwing stop aborts tasks.map
MapStopsOnThrow(out) == out # "throws" /\ cursor < Len(CurTasks)

\* Whether tasks.map goes on to the next task after an invocation.
MapContinues(out) == cursor < Len(CurTasks)

\* mutant: the stops are given the manager's configured grace
ManagerGrace == grace

\* the grace argument chain() was called with
ChainGrace == runGrace

\* mutant: no timeout races against stop
NoTimer(out) == "none"

\* The timer of invokeStop: task.stop(grace) is evaluated first, so a stop
\* that throws leaves no timer behind.
TimerFor(out) == IF out = "throws" THEN "none" ELSE "armed"

\* One iteration of tasks.map(task => invokeStop(task, grace)).
InvokeStop ==
    /\ proc = "running"
    /\ phase = "map"
    /\ \E out \in StopOutcomes :
        LET n == CurTasks[cursor]
            rc == [race EXCEPT ![n] =
                     CASE out = "throws" -> "error"
                       [] out = "returns" -> "ok"
                       [] OTHER -> "pending"]
        IN  /\ st' = [st EXCEPT ![n] =
                        CASE out = "throws" -> "threw"
                          [] out = "returns" -> "fulfilled"
                          [] OTHER -> "pending"]
            /\ race' = rc
            /\ timer' = [timer EXCEPT ![n] = TimerFor(out)]
            /\ due' = [due EXCEPT ![n] =
                         IF out = "throws" THEN 0 ELSE clock + GuardDelay(ChainGrace)]
            /\ given' = [given EXCEPT ![n] = ChainGrace]
            /\ startedAt' = [startedAt EXCEPT ![n] = clock]
            /\ order' = Append(order, n)
            /\ failures' = IF out = "throws" THEN Append(failures, TaskError(n))
                           ELSE failures
            /\ IF MapContinues(out)
               THEN cursor' = cursor + 1 /\ UNCHANGED <<phase, cur, pipeErr>>
               ELSE JoinAfterMap(rc)
    /\ UNCHANGED <<grace, drainGrace, tasks, exiting, exitCode, groups, runGrace,
                   watchdog, drainDue, proc, clock, stopErrors, drainCalls, runs,
                   arms, exitAt, atExit, codeBefore, requests, addError>>

\* The race of task n settles with result res while the group is joined.
RaceSettles(n, res) ==
    /\ race' = [race EXCEPT ![n] = res]
    /\ failures' = IF res = "ok" THEN failures
                   ELSE Append(failures, RaceError([race EXCEPT ![n] = res], n))
    /\ IF phase # "join"
       THEN UNCHANGED <<phase, cur, cursor, pipeErr>>
       ELSE IF res # "ok"
       THEN /\ phase' = "rejected"
            /\ pipeErr' = RaceError([race EXCEPT ![n] = res], n)
            /\ UNCHANGED <<cur, cursor>>
       ELSE IF \A m \in Range(CurTasks) \ {n} : race[m] = "ok"
       THEN Advance /\ UNCHANGED pipeErr
       ELSE UNCHANGED <<phase, cur, cursor, pipeErr>>

\* mutant: a settled race can be settled again
RaceReopened(n) == TRUE

\* A promise settles once: only the first outcome of Promise.race counts.
RaceOpen(n) == race[n] = "pending"

StopSettles(n, res) ==
    /\ proc = "running"
    /\ phase # "map"
    /\ st[n] = "pending"
    /\ st' = [st EXCEPT ![n] = res]
    /\ IF RaceOpen(n)
       THEN RaceSettles(n, IF res = "fulfilled" THEN "ok" ELSE "error")
       ELSE UNCHANGED <<race, failures, phase, cur, cursor, pipeErr>>
    /\ UNCHANGED <<grace, drainGrace, tasks, exiting, exitCode, groups, runGrace,
                   timer, due, given, startedAt, watchdog, drainDue, proc, clock,
                   order, stopErrors, drainCalls, runs, arms, exitAt, atExit,
                   codeBefore, requests, addError>>

\* The promise returned by task.stop fulfils.
StopFulfils == \E n \in Names : StopSettles(n, "fulfilled")

\* The promise returned by task.stop rejects.
StopRejects == \E n \in Names : StopSettles(n, "rejected")

\* The setTimeout callback of invokeStop: reject(new StopTimeoutError(..)).
TimeoutFires ==
    /\ MacroTurn
    /\ \E n \in Names :
        /\ timer[n] = "armed"
        /\ due[n] <= clock
        /\ timer' = [timer EXCEPT ![n] = "fired"]
        /\ IF RaceOpen(n)
           THEN RaceSettles(n, "timeout")
           ELSE UNCHANGED <<race, failures, phase, cur, cursor, pipeErr>>
    /\ UNCHANGED <<grace, drainGrace, tasks, exiting, exitCode, groups, runGrace,
                   st, due, given, startedAt, watchdog, drainDue, proc, clock,
                   order, stopErrors, drainCalls, runs, arms, exitAt, atExit,
                   codeBefore, requests, addError>>

\* promise.catch(err => { this.onStopError(err); if (!exitCode) exitCode = 1 })
FailureCode(current) == IF Falsy(current) THEN 1 ELSE current

HandleRejection ==
    /\ proc = "running"
    /\ phase = "rejected"
    /\ stopErrors' = Append(stopErrors, pipeErr)
    /\ exitCode' = FailureCode(exitCode)
    /\ phase' = "handled"
    /\ codeBefore' = exitCode
    /\ UNCHANGED <<grace, drainGrace, tasks, exiting, groups, runGrace, cur,
                   cursor, pipeErr, watchdog, drainDue, proc, clock, order,
                   failures, drainCalls, runs, arms, exitAt, atExit, requests, addError>>
    /\ UNCHANGED taskVars

\* ------------------------------------------------------- time, watchdog
\* Time passes, never beyond the deadline of a pending timer.
Tick ==
    /\ MacroTurn
    /\ exiting
    /\ watchdog # "fired"
    /\ \A d \in PendingDues : d > clock
    /\ \E t \in Instants \cup PendingDues :
        /\ t > clock
        /\ \A d \in PendingDues : t <= d
        /\ clock' = t
    /\ UNCHANGED <<grace, drainGrace, tasks, exiting, exitCode, watchdog,
                   drainDue, proc, requests, addError>>
    /\ UNCHANGED <<pipeVars, taskVars, histVars>>

\* The drain timer's callback: onDrainTimeout(), then setImmediate(...).
DrainTimeout ==
    /\ MacroTurn
    /\ watchdog = "armed"
    /\ drainDue <= clock
    /\ watchdog' = "fired"
    /\ drainCalls' = drainCalls + 1
    /\ UNCHANGED <<grace, drainGrace, tasks, exiting, exitCode, drainDue, proc,
                   clock, order, failures, stopErrors, runs, arms, exitAt, atExit,
                   codeBefore, requests, addError>>
    /\ UNCHANGED <<pipeVars, taskVars>>

\* The immediate: nodeProcess.exit(). Immediates run after the timers that
\* are due in the same turn of the event loop.
ForceExit ==
    /\ MacroTurn
    /\ watchdog = "fired"
    /\ \A d \in PendingDues : d > clock
    /\ proc' = "killed"
    /\ UNCHANGED <<grace, drainGrace, tasks, exiting, exitCode, watchdog,
                   drainDue, clock, requests, addError>>
    /\ UNCHANGED <<pipeVars, taskVars, histVars>>

\* The event loop drains: every timer of the manager is unref'd, so none of
\* them keeps the process alive; a pending immediate does.
NaturalExit ==
    /\ MacroTurn
    /\ watchdog # "fired"
    /\ proc' = "exited"
    /\ UNCHANGED <<grace, drainGrace, tasks, exiting, exitCode, watchdog,
                   drainDue, clock, requests, addError>>
    /\ UNCHANGED <<pipeVars, taskVars, histVars>>

Next ==
    \/ Add
    \/ Exit
    \/ ExitDefault
    \/ Crash
    \/ Sigint
    \/ Sigterm
    \/ UncaughtException
    \/ UnhandledRejection
    \/ InvokeStop
    \/ StopFulfils
    \/ StopRejects
    \/ TimeoutFires
    \/ HandleRejection
    \/ Tick
    \/ DrainTimeout
    \/ ForceExit
    \/ NaturalExit

Spec == Init /\ [][Next]_vars

\* Queued continuations run, due timers fire, time passes, immediates run.
\* Nothing obliges a stop to settle, a caller to call, or the loop to drain.
Fairness ==
    /\ WF_vars(InvokeStop)
    /\ WF_vars(HandleRejection)
    /\ WF_vars(TimeoutFires)
    /\ WF_vars(Tick)
    /\ WF_vars(DrainTimeout)
    /\ WF_vars(ForceExit)

\* The manager constructed with its default options.
LiveInit == Init /\ grace = DefaultGrace /\ drainGrace = DefaultDrainGrace

LiveSpec == LiveInit /\ [][Next]_vars /\ Fairness

\* The registry alone: add() with every kind of argument, before and after
\* shutdown has started.
AddNext ==
    \/ AddAny
    \/ Exit
    \/ Crash

AddSpec == Init /\ [][AddNext]_vars

\* ----------------------------------------------------------- vocabulary
Registered == {tasks[i].name : i \in 1..Len(tasks)}
PriorityOf(n) == tasks[CHOOSE i \in 1..Len(tasks) : tasks[i].name = n].priority
Invoked(n) == st[n] # "idle"
\* The task failed: its stop threw or rejected, or it was timed out.
Failed(n) == st[n] \in {"threw", "rejected"} \/ race[n] = "timeout"
NoDuplicates(s) == \A i, j \in 1..Len(s) : i # j => s[i] # s[j]

\* ----------------------------------------------------------------- C1
\* C1: no task's stop is invoked until every task of every strictly higher
\* priority registered at exit() has been invoked and has fulfilled; the
\* invocation order is by descending priority.
C1_DescendingGroups ==
    /\ \A n \in atExit, m \in atExit :
          (PriorityOf(m) > PriorityOf(n) /\ Invoked(n))
              => (st[m] = "fulfilled" /\ race[m] = "ok")
    /\ \A i, j \in 1..Len(order) :
          i < j => PriorityOf(order[i]) >= PriorityOf(order[j])

\* A lower-priority task is running after a higher one, registered later,
\* fulfilled asynchronously.
C1_Witness ==
    \E n \in atExit, m \in atExit :
        /\ n < m
        /\ PriorityOf(m) > PriorityOf(n)
        /\ st[n] = "pending"
        /\ st[m] = "fulfilled"
        /\ clock > exitAt

C3_HaltOnFailure ==
    \A n \in atExit, m \in atExit :
        (Failed(m) /\ PriorityOf(n) < PriorityOf(m)) => ~Invoked(n)

\* The higher task timed out, the failure was handled, the lower never ran.
C3_Witness ==
    \E n \in atExit, m \in atExit :
        /\ PriorityOf(n) < PriorityOf(m)
        /\ race[m] = "timeout"
        /\ phase = "handled"
        /\ ~Invoked(n)
        /\ proc # "running"

\* ----------------------------------------------------------------- C4
\* C4: whatever exit()/crash() calls are made, one shutdown sequence runs once
\* the first call is made and never a second, and no task's stop is invoked
\* twice.
C4_Idempotent ==
    /\ runs <= 1
    /\ (requests >= 1) => runs = 1
    /\ NoDuplicates(order)
    /\ Len(order) <= Cardinality(atExit)

\* A second call was made while the first group was in flight.
C4_Witness ==
    /\ requests = 2
    /\ phase = "join"
    /\ Len(order) = 2

\* ----------------------------------------------------------------- C5
\* C5: an exit code that is non-zero never changes again.
C5_FirstNonZeroWins ==
    [][(~Falsy(exitCode)) => exitCode' = exitCode]_vars

\* The pipeline failed after exit({code: 2}), and the code is still 2.
C5_Witness ==
    /\ exitCode = 2
    /\ phase = "handled"
    /\ requests = 2

\* ----------------------------------------------------------------- C6
\* C6: onStopError is never invoked twice; it is not invoked while no task
\* has failed; once a failure has been handled it has been invoked exactly
\* once, with the first failure that occurred, and a failure is never left
\* unhandled at a turn of the event loop or at termination.
C6_ReportedOnce ==
    /\ Len(stopErrors) <= 1
    /\ failures = <<>> => stopErrors = <<>>
    /\ stopErrors # <<>> => stopErrors[1] = failures[1]
    /\ (failures # <<>> /\ phase \notin {"map", "rejected"})
          => (Len(stopErrors) = 1 /\ phase = "handled")

\* The second sibling's failure came after the first was reported.
C6_Witness ==
    /\ Len(failures) = 2
    /\ Len(stopErrors) = 1
    /\ failures[1].task # failures[2].task
    /\ failures[2].name = "StopTimeoutError"
    /\ stopErrors[1] = TaskError(failures[1].task)

\* ----------------------------------------------------------------- C7
\* C7: once the pipeline's failure has been handled the exit code is
\* non-zero: 1 if the handler found it zero or unset, the value it found
\* otherwise.
C7_FailureSetsCode ==
    phase = "handled" =>
        /\ ~Falsy(exitCode)
        /\ Falsy(codeBefore) => exitCode = 1
        /\ ~Falsy(codeBefore) => exitCode = codeBefore

\* The handler found the code at zero and set it to 1.
C7_Witness ==
    /\ phase = "handled"
    /\ codeBefore = 0
    /\ exitCode = 1

\* ----------------------------------------------------------------- C8
\* C8: onDrainTimeout and the forced termination never happen before
\* drainGrace has elapsed since the exit() that started shutdown; the
\* termination comes in a later step than the callback, which ran once; a
\* process still running at the deadline gets the callback unless it exits by
\* itself, and after the callback it is terminated.
C8_DrainWatchdog ==
    /\ []((drainCalls > 0 \/ proc = "killed")
            => (runs = 1 /\ clock >= exitAt + drainGrace))
    /\ [](drainCalls <= 1)
    /\ [][proc' = "killed" /\ proc = "running"
            => (drainCalls = 1 /\ drainCalls' = 1)]_vars
    /\ ((proc = "running" /\ runs = 1 /\ clock >= exitAt + drainGrace)
            ~> (drainCalls = 1 \/ proc = "exited"))
    /\ ((drainCalls = 1) ~> (proc = "killed"))

\* The watchdog killed the process, started late, with the default drainGrace.
C8_Witness ==
    /\ proc = "killed"
    /\ drainGrace = DefaultDrainGrace
    /\ exitAt > 0
    /\ clock = exitAt + DefaultDrainGrace

\* ----------------------------------------------------------------- C9
\* C9: once exit() or crash() has been called the process eventually
\* terminates, whatever the stops do.
C9_Terminates == (requests >= 1) ~> (proc # "running")

\* The watchdog terminated a process whose task never completed.
C9_Witness ==
    /\ proc = "killed"
    /\ \E n \in atExit : st[n] = "pending" /\ race[n] = "pending"

\* ---------------------------------------------------------------- C10
\* A task hung: its stop had not settled when the watchdog terminated the
\* process.
Hung(n) == proc = "killed" /\ st[n] = "pending"

\* C10: a process that terminates after a task failed or hung has a non-zero
\* exit code.
C10_FailureExitCode ==
    (proc # "running" /\ \E n \in atExit : Failed(n) \/ Hung(n))
        => ~Falsy(exitCode)

\* ---------------------------------------------------------------- C11
NameOk(v) == v.type = "string" /\ v.int > 0

PriorityOk(v) ==
    \/ v.type = "undefined"
    \/ v.type = "number" /\ v.frac = 0 /\ v.int >= 0

StopOk(v) == v.type = "function"

ValidTask(name, priority, stop) == NameOk(name) /\ PriorityOk(priority) /\ StopOk(stop)

\* The first field, in the order name, priority, stop, that is invalid.
FailingField(name, priority, stop) ==
    IF ~NameOk(name) THEN "name"
    ELSE IF ~PriorityOk(priority) THEN "priority"
    ELSE "stop"

\* C11: add() with an invalid name, priority or stop throws a TypeError naming
\* a failing field and leaves the registry as it was; a valid task is
\* appended after the earlier ones; the registry never holds an invalid task.
C11_AddRejects ==
    /\ \A i \in 1..Len(tasks) : tasks[i].priority >= 0
    /\ [][\A name \in NameInputs, priority \in PriorityInputs, stop \in StopInputs :
            AddCall(name, priority, stop) =>
                IF ValidTask(name, priority, stop)
                THEN /\ addError' = "none"
                     /\ Len(tasks') = Len(tasks) + 1
                     /\ SubSeq(tasks', 1, Len(tasks)) = tasks
                ELSE /\ addError' = FailingField(name, priority, stop)
                     /\ tasks' = tasks]_vars

\* A negative priority was rejected after one task had been registered and
\* shutdown had started.
C11_Witness ==
    /\ addError = "priority"
    /\ Len(tasks) = 1
    /\ exiting

\* ---------------------------------------------------------------- C12
\* The time a stop is allowed: max(100, grace * 1.1) milliseconds.
Budget(g) == IF g * 11 >= 1000 THEN (g * 11) \div 10 ELSE 100

\* C12: a task is timed out no earlier than max(100, grace * 1.1) ms after
\* its own stop was invoked (100 ms for a grace of 0), its race is never
\* left open beyond that instant, and the failure is a StopTimeoutError
\* carrying that task and the grace it was given; the budget of a task
\* counts from the invocation of its stop, not from exit().
C12_TimeoutGuard ==
    \A n \in Names :
        /\ Invoked(n) => startedAt[n] >= exitAt
        /\ race[n] = "timeout" =>
              /\ clock >= startedAt[n] + Budget(given[n])
              /\ \E i \in 1..Len(failures) :
                    failures[i] = [name |-> "StopTimeoutError", task |-> n,
                                   grace |-> given[n]]
        /\ race[n] = "pending" => clock <= startedAt[n] + Budget(given[n])
        /\ ~(race[n] = "pending" /\ timer[n] = "fired")

\* A lower-priority task, invoked after exit() with a grace of 0, was timed
\* out 100 ms after its own invocation.
C12_Witness ==
    \E n \in Registered, m \in Registered :
        /\ PriorityOf(m) > PriorityOf(n)
        /\ race[m] = "ok"
        /\ race[n] = "timeout"
        /\ given[n] = 0
        /\ startedAt[n] > exitAt
        /\ clock = startedAt[n] + 100

\* ---------------------------------------------------------------- C13
\* C13: crash() does what exit({code: 1, grace: 0}) does from the same state:
\* the exit code becomes 1 when it was unset or zero and is kept otherwise,
\* shutdown is started, a run that crash() starts gives every task it
\* invokes a grace of 0, and a crash() during a run leaves the run alone.
C13_CrashIsExit ==
    /\ [][Crash =>
            /\ exitCode' = (IF exitCode \in {Undefined, 0} THEN 1 ELSE exitCode)
            /\ exiting'
            /\ IF exiting
               THEN UNCHANGED <<tasks, pipeVars, taskVars, order, watchdog, drainDue>>
               ELSE runGrace' = 0 /\ order' = <<>>]_vars
    /\ [](runGrace = 0 => \A n \in Names : Invoked(n) => given[n] = 0)

\* crash() started shutdown on a manager configured with a non-zero grace:
\* the exit code is 1 and a task was invoked with a grace of 0.
C13_Witness ==
    /\ requests = 1
    /\ runs = 1
    /\ exitCode = 1
    /\ grace # 0
    /\ runGrace = 0
    /\ \E n \in Names : Invoked(n) /\ given[n] = 0 /\ timer[n] = "armed"

\* ---------------------------------------------------------------- C14
\* C14: once a stop error has occurred (a stop threw, rejected or was timed
\* out), no other task's stop is invoked afterwards, whatever its priority.
C14_ErrorStopsAll == [][failures # <<>> => order' = order]_vars

\* ---------------------------------------------------------------- C15
\* C15: add() may be called after shutdown has started, and the run contains
\* exactly the tasks registered when the starting exit() was called: only
\* those are ever invoked, and a run that succeeds has invoked all of them.
C15_LateTaskIgnored ==
    /\ \A n \in Names : Invoked(n) => n \in atExit
    /\ Range(order) \subseteq atExit
    /\ UNION {Range(groups[i].tasks) : i \in 1..Len(groups)} = atExit
    /\ runs = 1 /\ phase = "fulfilled" => Range(order) = atExit

\* A task was registered after exit(); the run succeeded without it.
C15_Witness ==
    /\ runs = 1
    /\ phase = "fulfilled"
    /\ atExit # {}
    /\ \E n \in Registered : n \notin atExit /\ st[n] = "idle"

Settled(n) == race[n] \in {"ok", "error", "timeout"}

\* What a task's outcome can be seen by: the failures, the onStopError
\* calls, the exit code, the invocations and the state of the pipeline.
observable == <<race, failures, stopErrors, exitCode, order, phase, cur, cursor,
                pipeErr>>

\* C17: the first of stop and timeout to settle fixes the task's result, and
\* the loser changes nothing: a stop that completes or fails after its task
\* was timed out, and a timer that elapses after its task has settled, leave
\* the result, the failures, the onStopError calls, the exit code and the
\* pipeline as they were.
C17_LoserHasNoEffect ==
    /\ [][\A n \in Names : Settled(n) => race'[n] = race[n]]_vars
    /\ [][(\E n \in Names : Settled(n) /\ st[n] = "pending" /\ st'[n] # "pending")
              => UNCHANGED observable]_vars
    /\ [][(\E n \in Names : Settled(n) /\ timer[n] = "armed" /\ timer'[n] = "fired")
              => UNCHANGED observable]_vars
    /\ [](\A i, j \in 1..Len(failures) : i # j => failures[i].task # failures[j].task)

\* One task's stop rejected after the task had been timed out, and the timer
\* of a sibling elapsed after its stop had fulfilled; one failure was reported.
C17_Witness ==
    \E n \in Names, m \in Names :
        /\ race[n] = "timeout"
        /\ st[n] = "rejected"
        /\ race[m] = "ok"
        /\ timer[m] = "fired"
        /\ Len(failures) = 1
        /\ Len(stopErrors) = 1

\* ---------------------------------------------------------------- C18
\* C18 as stated: each call of exit() or crash() arms the drain watchdog, so
\* as many drain timers have been set as there were calls.
C18_ArmedAtEveryCall == arms = requests

\* C18, amended: the drain watchdog is armed once, by the exit() or crash()
\* that starts shutdown, for drainGrace ms from that call and whatever the
\* pipeline does afterwards; later calls set no further timer.
C18_ArmedOnce ==
    /\ arms = (IF requests = 0 THEN 0 ELSE 1)
    /\ requests = 0 => watchdog = "unarmed"
    /\ requests >= 1 =>
          /\ drainDue = exitAt + drainGrace
          /\ watchdog = (IF drainCalls = 0 THEN "armed" ELSE "fired")

\* A second call was made after the pipeline had failed and time had passed:
\* the one drain timer of the first call is still the only one.
C18_Witness ==
    /\ requests = 2
    /\ arms = 1
    /\ phase = "handled"
    /\ clock > exitAt
    /\ watchdog = "armed"

\* ---------------------------------------------------------------- C19
\* C19: the grace of a run is the one of the exit() or crash() that started
\* it: every task the run invokes is given that grace and timed against it,
\* and a later call, whatever grace it passes, changes neither the grace of
\* the run nor a timeout that is running.
C19_GraceFixed ==
    /\ [](\A n \in Names : Invoked(n) =>
            /\ given[n] = runGrace
            /\ timer[n] # "none" => due[n] = startedAt[n] + Budget(runGrace))
    /\ [][runs = 1 => runGrace' = runGrace]_vars
    /\ [][\A n \in Names : Invoked(n) =>
            given'[n] = given[n] /\ due'[n] = due[n]]_vars
    /\ [][runs = 1 /\ requests' # requests =>
            UNCHANGED <<runGrace, given, due, timer, order>>]_vars

\* exit() or crash() was called twice on a manager whose run has a grace of
\* 100 ms, different from the configured one; the two groups were invoked at
\* different instants and the later one was given 100 ms and timed against
\* it as well.
C19_Witness ==
    /\ requests = 2
    /\ runGrace = 100
    /\ grace # runGrace
    /\ Len(order) = 2
    /\ startedAt[order[2]] > startedAt[order[1]]
    /\ given[order[2]] = 100
    /\ due[order[2]] = startedAt[order[2]] + 110

\* ---------------------------------------------------------------- C20
\* C20: while the process is alive the pipeline settles: after the exit() that
\* starts shutdown, eventually every task of the run has been invoked and has
\* succeeded, or onStopError has been invoked, unless the process terminates
\* first. A stop that never completes cannot block the pipeline: whenever the
\* pipeline waits for a group, it waits for a task whose timeout is yet to
\* fire.
C20_PipelineSettles ==
    /\ (runs = 1) ~> (phase \in {"fulfilled", "handled"} \/ proc # "running")
    /\ [](phase = "join" =>
            \E n \in Range(CurTasks) :
                race[n] = "pending" /\ timer[n] = "armed" /\ due[n] >= clock)
    /\ [](runs = 1 /\ phase = "fulfilled" =>
            \A n \in atExit : st[n] = "fulfilled" /\ race[n] = "ok")
    /\ [](phase = "handled" => Len(stopErrors) = 1)

\* A stop never completed; its task was timed out, onStopError was called and
\* the process is still alive.
C20_Witness ==
    /\ proc = "running"
    /\ phase = "handled"
    /\ watchdog = "armed"
    /\ \E n \in Names : st[n] = "pending" /\ race[n] = "timeout"
    /\ Len(stopErrors) = 1

====
